---- MODULE Spec2Model ----
(***************************************************************************)
(* Multi-environment configuration pipeline (manager.py, schema.py):       *)
(* recursive merge of a base document with an environment overlay,         *)
(* validation of the merged configuration, rendering of the .tfvars        *)
(* artifact, and the diff of two resolved configurations.                  *)
(*                                                                         *)
(* Text is modelled as a sequence of character codes, so that              *)
(* concatenation, str(), lower() and sorted() are computed, not assumed.   *)
(***************************************************************************)
EXTENDS Integers, Sequences, FiniteSets, TLC

VARIABLES
    mA, mB, mC,      \* merge harness: three documents (tree-shaped mappings)
    mPc,             \* merge harness: "ready" | "done"
    mAB,             \* recursive_merge(A, B), dereferenced
    mAafter,         \* A as reachable from its own reference after recursive_merge(A, B)
    mLeft, mRight,   \* recursive_merge(recursive_merge(A, B), C) / recursive_merge(A, recursive_merge(B, C))
    mBE,             \* recursive_merge(B, {})
    cEnv,            \* configuration harness: the environment name
    cConfig,         \* configuration harness: the merged config, environment tag included
    cPc,             \* configuration harness: "ready" | "validated" | "generated"
    cValid,          \* what validate_config returned
    cErrors,         \* the errors validate_config printed, in order
    cFile,           \* the output file: NoFile or its text
    base_file,       \* configs/base-config.yaml: NoFile or the document
    env_files,       \* configs/<env>.yaml, per environment: NoFile or the document
    tf_dir,          \* tf_dir/<env>.tfvars, per environment: NoFile or the text
    last             \* the last run of the command line: command, arguments, output

mvars == <<mA, mB, mC, mPc, mAB, mAafter, mLeft, mRight, mBE>>
cvars == <<cEnv, cConfig, cPc, cValid, cErrors, cFile>>
pvars == <<base_file, env_files, tf_dir, last>>
vars == <<mvars, cvars, pvars>>

(***************************************************************************)
(* Python values.  A document read from disk is a tree; inside the         *)
(* interpreter a dict is an object on the heap and is held by reference.   *)
(***************************************************************************)
PyInt(n) == [t |-> "int", v |-> n]
PyBool(b) == [t |-> "bool", v |-> b]
PyStr(s) == [t |-> "str", v |-> s]
PyList(l) == [t |-> "list", v |-> l]
PyDict(f) == [t |-> "dict", v |-> f]
Ref(a) == [t |-> "ref", v |-> a]

EmptyDoc == <<>>

\* isinstance(x, dict), for a value held in a heap object
isinstance_dict(x) == x.t = "ref"

\* obj[key] = value on the heap object at address a
SetItem(heap, a, key, value) ==
    [heap EXCEPT ![a] = [x \in (DOMAIN heap[a]) \cup {key} |->
                            IF x = key THEN value ELSE heap[a][x]]]

\* obj[key] = <the dict object a nested call returned>
StoreResult(r, a, key) == SetItem(r.heap, a, key, Ref(r.ref))

RECURSIVE safe_load(_, _)
RECURSIVE LoadItems(_, _, _, _)
\* fills the object at address a with the entries of doc, nested mappings first allocated
LoadItems(heap, a, doc, ks) ==
    IF ks = {} THEN heap
    ELSE LET k == CHOOSE x \in ks : TRUE
         IN  IF doc[k].t = "dict"
             THEN LoadItems(StoreResult(safe_load(heap, doc[k].v), a, k), a, doc, ks \ {k})
             ELSE LoadItems(SetItem(heap, a, k, doc[k]), a, doc, ks \ {k})

\* yaml.safe_load: a fresh object graph for the document; returns the heap and the root
safe_load(heap, doc) ==
    LET a == Len(heap) + 1
    IN  [heap |-> LoadItems(Append(heap, EmptyDoc), a, doc, DOMAIN doc), ref |-> a]

RECURSIVE Deref(_, _)
\* the tree reachable from address a
Deref(heap, a) ==
    [k \in DOMAIN heap[a] |->
        IF heap[a][k].t = "ref" THEN PyDict(Deref(heap, heap[a][k].v)) ELSE heap[a][k]]

\* mutant of dict_copy: merged starts empty instead of from base
dict_copy_empty(heap, base) == [heap |-> Append(heap, EmptyDoc), ref |-> Len(heap) + 1]

\* mutant of dict_copy: no copy is taken, merged is base itself
dict_copy_alias(heap, base) == [heap |-> heap, ref |-> base]

\* merged = base.copy(): a new object with the same entries (nested objects shared)
dict_copy(heap, base) == [heap |-> Append(heap, heap[base]), ref |-> Len(heap) + 1]

\* mutant of merge_value: dict values are never merged, the override always replaces
merge_value_replace(heap, merged, key, value) == FALSE

\* the test of line 18: key in merged and both values are dicts
merge_value(heap, merged, key, value) ==
    /\ key \in DOMAIN heap[merged]
    /\ isinstance_dict(heap[merged][key])
    /\ isinstance_dict(value)

RECURSIVE recursive_merge(_, _, _)
RECURSIVE merge_items(_, _, _, _)
RECURSIVE merge_into(_, _)
\* the loop of lines 17-21 over override.items()
merge_items(heap, merged, override, ks) ==
    IF ks = {} THEN heap
    ELSE LET key == CHOOSE x \in ks : TRUE
             value == heap[override][key]
         IN  IF merge_value(heap, merged, key, value)
             THEN merge_items(StoreResult(recursive_merge(heap, heap[merged][key].v, value.v),
                                          merged, key),
                              merged, override, ks \ {key})
             ELSE merge_items(SetItem(heap, merged, key, value),
                              merged, override, ks \ {key})

\* lines 17-22 on the copy c: the loop, then return merged
merge_into(c, override) ==
    [heap |-> merge_items(c.heap, c.ref, override, DOMAIN c.heap[override]), ref |-> c.ref]

\* recursive_merge(base, override): returns the heap after the call and the result's address
recursive_merge(heap, base, override) == merge_into(dict_copy(heap, base), override)

(***************************************************************************)
(* Text: names and literals of the source as character codes.              *)
(***************************************************************************)
s_environment == <<101, 110, 118, 105, 114, 111, 110, 109, 101, 110, 116>>
s_database == <<100, 97, 116, 97, 98, 97, 115, 101>>
s_api_service == <<97, 112, 105, 95, 115, 101, 114, 118, 105, 99, 101>>
s_engine == <<101, 110, 103, 105, 110, 101>>
s_backup_retention == <<98, 97, 99, 107, 117, 112, 95, 114, 101, 116, 101, 110, 116, 105, 111, 110>>
s_publicly_accessible ==
    <<112, 117, 98, 108, 105, 99, 108, 121, 95, 97, 99, 99, 101, 115, 115, 105, 98, 108, 101>>
s_instance_type == <<105, 110, 115, 116, 97, 110, 99, 101, 95, 116, 121, 112, 101>>
s_replicas == <<114, 101, 112, 108, 105, 99, 97, 115>>
s_dev == <<100, 101, 118>>
s_staging == <<115, 116, 97, 103, 105, 110, 103>>
s_prod == <<112, 114, 111, 100>>
s_postgres == <<112, 111, 115, 116, 103, 114, 101, 115>>
s_mysql == <<109, 121, 115, 113, 108>>
s_t3_small == <<116, 51, 46, 115, 109, 97, 108, 108>>
s_t3_medium == <<116, 51, 46, 109, 101, 100, 105, 117, 109>>
s_t3_large == <<116, 51, 46, 108, 97, 114, 103, 101>>
s_m5_large == <<109, 53, 46, 108, 97, 114, 103, 101>>
s_True == <<84, 114, 117, 101>>
s_False == <<70, 97, 108, 115, 101>>
s_MISSING == <<60, 60, 60, 77, 73, 83, 83, 73, 78, 71, 62, 62, 62>>      \* '<<<MISSING>>>'

ENVIRONMENTS == <<s_dev, s_staging, s_prod>>
ALLOWED_INSTANCE_TYPES == {s_t3_small, s_t3_medium, s_t3_large, s_m5_large}
ALLOWED_DB_ENGINES == {s_postgres, s_mysql}
MinProdRetention == 30

\* str.lower()
lower(s) == [i \in 1..Len(s) |-> IF s[i] >= 65 /\ s[i] <= 90 THEN s[i] + 32 ELSE s[i]]

RECURSIVE Digits(_)
\* the decimal digits of a natural number
Digits(n) == IF n < 10 THEN <<48 + n>> ELSE Digits(n \div 10) \o <<48 + (n % 10)>>

\* str(value) of an int, a bool or a str
py_str(x) ==
    CASE x.t = "int" -> IF x.v < 0 THEN <<45>> \o Digits(-x.v) ELSE Digits(x.v)
      [] x.t = "bool" -> IF x.v THEN s_True ELSE s_False
      [] OTHER -> x.v

\* the strings int() parses here: an optional sign, then decimal digits only
IsIntLiteral(s) ==
    LET body == IF Len(s) > 0 /\ s[1] \in {43, 45} THEN Tail(s) ELSE s
    IN  Len(body) > 0 /\ \A i \in 1..Len(body) : body[i] >= 48 /\ body[i] <= 57

RECURSIVE DigitsValue(_)
DigitsValue(s) ==
    IF Len(s) = 0 THEN 0
    ELSE 10 * DigitsValue(SubSeq(s, 1, Len(s) - 1)) + (s[Len(s)] - 48)

\* int(s) for a string IsIntLiteral accepts
ParseInt(s) ==
    IF s[1] = 45 THEN 0 - DigitsValue(Tail(s))
    ELSE IF s[1] = 43 THEN DigitsValue(Tail(s))
    ELSE DigitsValue(s)

(***************************************************************************)
(* schema.py: the pydantic (v1 API) models.  A field validator returns     *)
(* [ok, v, err]: the coerced value, or the kind of error.  A model         *)
(* instance is the sequence of its <<name, value>> pairs in declaration    *)
(* order.                                                                  *)
(***************************************************************************)
Ok(value) == [ok |-> TRUE, v |-> value, err |-> "none"]
Bad(kind) == [ok |-> FALSE, v |-> PyInt(0), err |-> kind]
Err(loc, kind) == [loc |-> loc, type |-> kind]

\* Literal["postgres", "mysql"]
literal_validator(x) ==
    IF x.t = "str" /\ x.v \in ALLOWED_DB_ENGINES THEN Ok(x) ELSE Bad("literal")

\* int: an int as it is; a bool or a numeric string through int()
int_validator(x) ==
    CASE x.t = "int" -> Ok(x)
      [] x.t = "bool" -> Ok(PyInt(IF x.v THEN 1 ELSE 0))
      [] x.t = "str" /\ IsIntLiteral(x.v) -> Ok(PyInt(ParseInt(x.v)))
      [] OTHER -> Bad("int")

BOOL_TRUE == {<<49>>, <<111, 110>>, <<116>>, <<116, 114, 117, 101>>, <<121>>, <<121, 101, 115>>}
BOOL_FALSE ==
    {<<48>>, <<111, 102, 102>>, <<102>>, <<102, 97, 108, 115, 101>>, <<110>>, <<110, 111>>}

\* bool: True/False as they are; 0/1 and the yes/no words, case-insensitively
bool_validator(x) ==
    CASE x.t = "bool" -> Ok(x)
      [] x.t = "int" /\ x.v \in {0, 1} -> Ok(PyBool(x.v = 1))
      [] x.t = "str" /\ lower(x.v) \in BOOL_TRUE -> Ok(PyBool(TRUE))
      [] x.t = "str" /\ lower(x.v) \in BOOL_FALSE -> Ok(PyBool(FALSE))
      [] OTHER -> Bad("bool")

\* str: a str as it is; an int or a bool through str()
str_validator(x) ==
    CASE x.t = "str" -> Ok(x)
      [] x.t \in {"int", "bool"} -> Ok(PyStr(py_str(x)))
      [] OTHER -> Bad("str")

\* ComputeConfig.validate_instance_type, run on the value str_validator returned
validate_instance_type(r) ==
    IF ~r.ok THEN r
    ELSE IF r.v.v \notin ALLOWED_INSTANCE_TYPES THEN Bad("value_error") ELSE r

\* the validators of a field, by the field's declared type
FieldValidators(kind, x) ==
    CASE kind = "engine" -> literal_validator(x)
      [] kind = "int" -> int_validator(x)
      [] kind = "bool" -> bool_validator(x)
      [] kind = "instance_type" -> validate_instance_type(str_validator(x))
      [] OTHER -> str_validator(x)

\* a required field: Field(...) of the input mapping
validate_field(input, name, kind) ==
    IF name \notin DOMAIN input THEN Bad("missing") ELSE FieldValidators(kind, input[name])

RECURSIVE FieldErrors(_, _, _)
\* the errors among the field results[i..], in declaration order
FieldErrors(decl, results, i) ==
    IF i > Len(decl) THEN <<>>
    ELSE (IF results[i].ok THEN <<>> ELSE <<Err(<<decl[i][1]>>, results[i].err)>>)
         \o FieldErrors(decl, results, i + 1)

\* the errors collected and the values validated, from the results of all fields
model_result(decl, results) ==
    [errors |-> FieldErrors(decl, results, 1),
     fields |-> [i \in 1..Len(decl) |-> <<decl[i][1], results[i].v>>]]

\* BaseModel.__init__ of a model with scalar fields: every field is validated, the
\* errors are collected, and an instance exists only when there is none
validate_model(input, decl) ==
    model_result(decl, [i \in 1..Len(decl) |-> validate_field(input, decl[i][1], decl[i][2])])

DatabaseFields ==
    << <<s_engine, "engine">>, <<s_backup_retention, "int">>, <<s_publicly_accessible, "bool">> >>
ComputeFields == << <<s_instance_type, "instance_type">>, <<s_replicas, "int">> >>

DatabaseConfig(input) == validate_model(input, DatabaseFields)
ComputeConfig(input) == validate_model(input, ComputeFields)

\* attribute access on a model instance
Attr(fields, name) == fields[CHOOSE i \in 1..Len(fields) : fields[i][1] = name][2]

\* mutant of validate_prod_database_safety: the retention rule is not limited to prod
safety_all_envs(v, env) ==
    IF env = s_prod /\ Attr(v, s_publicly_accessible).v = TRUE THEN "R1"
    ELSE IF Attr(v, s_backup_retention).v < MinProdRetention THEN "R2"
    ELSE "none"

\* EnvironmentConfig.validate_prod_database_safety: the first rule violated, or "none"
validate_prod_database_safety(v, env) ==
    IF env = s_prod /\ Attr(v, s_publicly_accessible).v = TRUE THEN "R1"
    ELSE IF env = s_prod /\ Attr(v, s_backup_retention).v < MinProdRetention THEN "R2"
    ELSE "none"

\* prefixes the locations of a nested model's errors with the field's name
Nested(name, errors) == [i \in 1..Len(errors) |-> Err(<<name>> \o errors[i].loc, errors[i].type)]

\* the result m of a nested model, as the result of the field that holds it
nested_result(name, m) == [errors |-> Nested(name, m.errors), fields |-> m.fields]

\* a field holding a nested model: missing, not a mapping, or the model's own result
validate_section(config, name, decl) ==
    IF name \notin DOMAIN config THEN [errors |-> <<Err(<<name>>, "missing")>>, fields |-> <<>>]
    ELSE IF config[name].t # "dict" THEN [errors |-> <<Err(<<name>>, "dict")>>, fields |-> <<>>]
    ELSE nested_result(name, validate_model(config[name].v, decl))

\* the validator of the database field, run on the nested model's result m
rule_result(m, rule) ==
    IF rule = "none" THEN m ELSE [errors |-> <<Err(<<s_database>>, rule)>>, fields |-> <<>>]

apply_safety(m, env) ==
    IF m.errors # <<>> THEN m ELSE rule_result(m, validate_prod_database_safety(m.fields, env))

\* the database field: the nested model, then (only when it validated) the safety rules
validate_database(config, env) ==
    apply_safety(validate_section(config, s_database, DatabaseFields), env)

\* the instance, or the errors of the three fields in declaration order
environment_result(e, d, c, errors) ==
    [ok |-> errors = <<>>,
     errors |-> errors,
     fields |-> IF errors # <<>> THEN <<>>
                ELSE << <<s_environment, e.v>>,
                        <<s_database, [t |-> "model", v |-> d.fields]>>,
                        <<s_api_service, [t |-> "model", v |-> c.fields]>> >>]

collect_errors(e, d, c) ==
    environment_result(e, d, c,
        (IF e.ok THEN <<>> ELSE <<Err(<<s_environment>>, e.err)>>) \o d.errors \o c.errors)

\* database and api_service, validated with values['environment'] already set
validate_after_environment(config, e) ==
    collect_errors(e,
                   validate_database(config, IF e.ok THEN e.v.v ELSE <<>>),
                   validate_section(config, s_api_service, ComputeFields))

\* EnvironmentConfig(**config): [ok, errors, fields]; environment, database and
\* api_service are validated in declaration order and their errors collected
EnvironmentConfig(config) == validate_after_environment(config, validate_field(config, s_environment, "str"))

\* lines 51-61: True when the constructor returns, False and the errors when it raises
validation_outcome(r) == [valid |-> r.ok, errors |-> r.errors]

\* validate_config(env, config): the value returned and the errors printed
validate_config(env, config) == validation_outcome(EnvironmentConfig(config))

(***************************************************************************)
(* generate_tfvars: rendering of the validated configuration.              *)
(***************************************************************************)
\* .dict(exclude=...): the fields in declaration order, nested models as dicts
dict_exclude(fields, exclude) ==
    LET keep == SelectSeq(fields, LAMBDA p : p[1] \notin exclude)
    IN  [i \in 1..Len(keep) |->
            IF keep[i][2].t = "model"
            THEN <<keep[i][1], [t |-> "dict", v |-> keep[i][2].v]>>
            ELSE keep[i]]

\* mutant of value_str: the bool test is missing, a bool falls to str(value)
value_str_no_bool(value) ==
    IF value.t = "str" THEN <<34>> \o value.v \o <<34>> ELSE py_str(value)

\* lines 77-82: the HCL form of a field's value
value_str(value) ==
    IF value.t = "str" THEN <<34>> \o value.v \o <<34>>
    ELSE IF value.t = "bool" THEN lower(py_str(value))
    ELSE py_str(value)

\* lines 75-84: the lines of one resource section
resource_lines(resource_name, resource_data) ==
    [i \in 1..Len(resource_data) |->
        resource_name \o <<95>> \o resource_data[i][1] \o <<32, 61, 32>>
            \o value_str(resource_data[i][2])]

RECURSIVE tfvars_content(_, _)
\* lines 73-87: the lines of validated_data[i..]
tfvars_content(validated_data, i) ==
    IF i > Len(validated_data) THEN <<>>
    ELSE (IF validated_data[i][2].t = "dict"
          THEN resource_lines(validated_data[i][1], validated_data[i][2].v)
          ELSE << validated_data[i][1] \o <<32, 61, 32>> \o py_str(validated_data[i][2]) >>)
         \o tfvars_content(validated_data, i + 1)

RECURSIVE join(_, _)
\* sep.join(lines)
join(sep, lines) ==
    IF Len(lines) = 0 THEN <<>>
    ELSE IF Len(lines) = 1 THEN lines[1]
    ELSE lines[1] \o sep \o join(sep, Tail(lines))

\* lines 68-90 from what the constructor gave
render(r) ==
    IF ~r.ok THEN [raised |-> TRUE, text |-> <<>>]
    ELSE [raised |-> FALSE,
          text |-> join(<<10>>, tfvars_content(dict_exclude(r.fields, {s_environment}), 1))]

\* generate_tfvars(env, config): [raised, text]; the constructor raises on an invalid
\* config before the file is opened
generate_tfvars(env, config) == render(EnvironmentConfig(config))

NoResult == [none |-> TRUE]

(***************************************************************************)
(* Configuration harness: validate_config, then generate_tfvars, applied   *)
(* to merged configurations drawn field by field from bounded value sets.  *)
(***************************************************************************)
RetentionSpan == 1
MaxReplicas == 1

EngineValues == {PyStr(s_postgres), PyStr(s_mysql), PyStr(<<111, 114, 97, 99, 108, 101>>)}   \* "oracle"
RetentionValues ==
    {PyInt(n) : n \in {-1, 0, 5}
                     \cup ((MinProdRetention - RetentionSpan) .. (MinProdRetention + RetentionSpan))}
        \cup {PyStr(<<52, 53>>), PyStr(<<97, 98, 99>>)}                 \* "45", "abc"
PublicValues ==
    {PyBool(TRUE), PyBool(FALSE), PyStr(<<89, 101, 115>>), PyStr(<<109, 97, 121, 98, 101>>)}  \* "Yes", "maybe"
InstanceValues ==
    {PyStr(s_t3_medium), PyStr(<<116, 50, 46, 109, 105, 99, 114, 111>>), PyInt(5)}    \* "t2.micro"
ReplicaValues == {PyInt(n) : n \in 0..MaxReplicas} \cup {PyStr(<<97, 98, 99>>)}

\* the mappings that give some of the fields a value of the field's set
Sections(values) ==
    UNION {{f \in [d -> UNION {values[k] : k \in d}] : \A k \in d : f[k] \in values[k]}
              : d \in SUBSET DOMAIN values}

Absent == [t |-> "absent", v |-> 0]

DatabaseSections ==
    {PyDict(f) : f \in Sections([k \in {s_engine, s_backup_retention, s_publicly_accessible} |->
                                    IF k = s_engine THEN EngineValues
                                    ELSE IF k = s_backup_retention THEN RetentionValues
                                    ELSE PublicValues])}
        \cup {PyInt(5), Absent}
ComputeSections ==
    {PyDict(f) : f \in Sections([k \in {s_instance_type, s_replicas} |->
                                    IF k = s_instance_type THEN InstanceValues
                                    ELSE ReplicaValues])}
        \cup {PyInt(5), Absent}

\* the merged config of env with the two sections (a section may be absent)
MergedConfig(env, db, api) ==
    [k \in {s_environment} \cup (IF db = Absent THEN {} ELSE {s_database})
                           \cup (IF api = Absent THEN {} ELSE {s_api_service}) |->
        IF k = s_environment THEN PyStr(env)
        ELSE IF k = s_database THEN db ELSE api]

NoFile == [t |-> "nofile", v |-> 0]

MergeIdle ==
    /\ mA = EmptyDoc /\ mB = EmptyDoc /\ mC = EmptyDoc
    /\ mPc = "idle"
    /\ mAB = NoResult /\ mAafter = NoResult /\ mLeft = NoResult /\ mRight = NoResult
    /\ mBE = NoResult

PipelineIdle ==
    /\ base_file = NoFile
    /\ env_files = <<>>
    /\ tf_dir = <<>>
    /\ last = <<>>

ConfigIdle ==
    /\ cEnv = <<>> /\ cConfig = EmptyDoc /\ cPc = "idle"
    /\ cValid = NoResult /\ cErrors = <<>> /\ cFile = NoFile

InitConfig ==
    /\ cEnv \in {ENVIRONMENTS[i] : i \in 1..Len(ENVIRONMENTS)}
    /\ \E db \in DatabaseSections, api \in ComputeSections :
          cConfig = MergedConfig(cEnv, db, api)
    /\ cPc = "ready"
    /\ cValid = NoResult
    /\ cErrors = <<>>
    /\ cFile = NoFile
    /\ MergeIdle
    /\ PipelineIdle

\* validate_config(env, config)
ValidateConfig ==
    /\ cPc = "ready"
    /\ \E r \in {validate_config(cEnv, cConfig)} :
          /\ cValid' = r.valid
          /\ cErrors' = r.errors
    /\ cPc' = "validated"
    /\ UNCHANGED <<cEnv, cConfig, cFile, mvars, pvars>>

\* generate_tfvars(env, config), called as main calls it: after validate_config
\* returned True
GenerateTfvars ==
    /\ cPc = "validated"
    /\ cValid = TRUE
    /\ \E g \in {generate_tfvars(cEnv, cConfig)} :
          cFile' = IF g.raised THEN cFile ELSE g.text
    /\ cPc' = "generated"
    /\ UNCHANGED <<cEnv, cConfig, cValid, cErrors, mvars, pvars>>

NextConfig == ValidateConfig \/ GenerateTfvars

SpecConfig == InitConfig /\ [][NextConfig]_vars

(***************************************************************************)
(* manager.py: loading, the diff, and the commands of main().              *)
(***************************************************************************)
\* final_config['environment'] = env, and the value of the returned dict
with_environment(m, env) == Deref(SetItem(m.heap, m.ref, s_environment, PyStr(env)), m.ref)

\* final_config = recursive_merge(base_config, env_config)
merge_loaded(b, e) == recursive_merge(e.heap, b.ref, e.ref)

\* env_config: {} when the overlay file does not exist, else the loaded document
load_overlay(b, env_file) ==
    merge_loaded(b, safe_load(b.heap, IF env_file.t = "nofile" THEN EmptyDoc ELSE env_file.v))

\* get_config_for_env(env), for a base file that exists
get_config_for_env(base, env_file, env) ==
    with_environment(load_overlay(safe_load(<<>>, base.v), env_file), env)

\* dict.update(): the entries of other replace those of items
update(items, other) ==
    [k \in (DOMAIN items) \cup (DOMAIN other) |-> IF k \in DOMAIN other THEN other[k] ELSE items[k]]

RECURSIVE flatten_dict(_, _, _)
RECURSIVE flatten_items(_, _, _, _, _)
\* the loop of lines 111-116 over d.items()
flatten_items(d, parent_key, sep, ks, items) ==
    IF ks = {} THEN items
    ELSE LET k == CHOOSE x \in ks : TRUE
             new_key == IF parent_key # <<>> THEN parent_key \o sep \o k ELSE k
         IN  flatten_items(d, parent_key, sep, ks \ {k},
                 IF d[k].t = "dict"
                 THEN update(items, flatten_dict(d[k].v, new_key, sep))
                 ELSE update(items, [x \in {new_key} |-> d[k]]))

\* flatten_dict(d, parent_key, sep)
flatten_dict(d, parent_key, sep) == flatten_items(d, parent_key, sep, DOMAIN d, <<>>)

RECURSIVE less_from(_, _, _)
\* a[i..] < b[i..], the two strings being equal before i
less_from(a, b, i) ==
    IF i > Len(a) THEN i <= Len(b)
    ELSE IF i > Len(b) THEN FALSE
    ELSE IF a[i] # b[i] THEN a[i] < b[i]
    ELSE less_from(a, b, i + 1)

\* a < b for Python strings: lexicographic on the character codes
str_less(a, b) == less_from(a, b, 1)

\* the smaller of two strings
smaller(x, y) == IF str_less(x, y) THEN x ELSE y

RECURSIVE least(_)
\* the least string of a non-empty set
least(S) ==
    IF Cardinality(S) = 1 THEN CHOOSE x \in S : TRUE
    ELSE smaller(CHOOSE x \in S : TRUE, least(S \ {CHOOSE x \in S : TRUE}))

RECURSIVE sorted(_)
least_first(S, m) == <<m>> \o sorted(S \ {m})

\* sorted(set(...)) of strings
sorted(S) == IF S = {} THEN <<>> ELSE least_first(S, least(S))

\* the number a bool or an int compares as
num(x) == IF x.t = "bool" THEN (IF x.v THEN 1 ELSE 0) ELSE x.v

\* val1 == val2 for scalars: a bool equals the int of the same value
py_eq(x, y) ==
    IF x.t \in {"int", "bool"} /\ y.t \in {"int", "bool"} THEN num(x) = num(y) ELSE x = y

\* flat.get(key, '<<<MISSING>>>')
get_or_missing(flat, key) == IF key \in DOMAIN flat THEN flat[key] ELSE PyStr(s_MISSING)

\* lines 132-134: the line printed for key when the two values are not equal
diff_line(key, val1, val2) ==
    IF ~py_eq(val1, val2) THEN << [key |-> key, val1 |-> val1, val2 |-> val2] >> ELSE <<>>

RECURSIVE diff_lines(_, _, _, _)
\* the loop of lines 125-134: the keys printed, with both values, in order
diff_lines(flat1, flat2, all_keys, i) ==
    IF i > Len(all_keys) THEN <<>>
    ELSE (IF all_keys[i] = s_environment THEN <<>>
          ELSE diff_line(all_keys[i], get_or_missing(flat1, all_keys[i]),
                         get_or_missing(flat2, all_keys[i])))
         \o diff_lines(flat1, flat2, all_keys, i + 1)

\* lines 119-134, from the two flattened configs
diff_flat(flat1, flat2) ==
    diff_lines(flat1, flat2, sorted((DOMAIN flat1) \cup (DOMAIN flat2)), 1)

\* run_diff(env1, env2) on the two resolved configs: the lines printed
run_diff(config1, config2) ==
    diff_flat(flatten_dict(config1, <<>>, <<95>>), flatten_dict(config2, <<>>, <<95>>))

s_all == <<97, 108, 108>>

\* what one pass of the validate loop adds: the outcome printed for env, all_valid
validate_step(acc, env, r) ==
    [all_valid |-> acc.all_valid /\ r.valid,
     log |-> Append(acc.log, [env |-> env, valid |-> r.valid, errors |-> r.errors])]

RECURSIVE validate_envs_stop(_, _, _, _, _)
\* mutant of validate_envs: the loop stops at the first environment that fails
validate_envs_stop(base, files, envs, i, acc) ==
    IF i > Len(envs) \/ ~acc.all_valid THEN acc
    ELSE validate_envs_stop(base, files, envs, i + 1,
             validate_step(acc, envs[i],
                 validate_config(envs[i], get_config_for_env(base, files[envs[i]], envs[i]))))

RECURSIVE validate_envs(_, _, _, _, _)
\* the loop of lines 162-166 over envs_to_validate[i..]
validate_envs(base, files, envs, i, acc) ==
    IF i > Len(envs) THEN acc
    ELSE validate_envs(base, files, envs, i + 1,
             validate_step(acc, envs[i],
                 validate_config(envs[i], get_config_for_env(base, files[envs[i]], envs[i]))))

(***************************************************************************)
(* The pipeline: the files on disk and the runs of the command line.       *)
(***************************************************************************)
EnvSet == {ENVIRONMENTS[i] : i \in 1..Len(ENVIRONMENTS)}

File(doc) == [t |-> "file", v |-> doc]

\* a complete base document
BaseFull ==
    [k \in {s_database, s_api_service} |->
        IF k = s_database
        THEN PyDict([f \in {s_engine, s_backup_retention, s_publicly_accessible} |->
                        IF f = s_engine THEN PyStr(s_postgres)
                        ELSE IF f = s_backup_retention THEN PyInt(10)
                        ELSE PyBool(FALSE)])
        ELSE PyDict([f \in {s_instance_type, s_replicas} |->
                        IF f = s_instance_type THEN PyStr(s_t3_small) ELSE PyInt(1)])]

\* a base document that leaves engine and backup_retention to the overlays
BasePartial ==
    [k \in {s_database, s_api_service} |->
        IF k = s_database
        THEN PyDict([f \in {s_publicly_accessible} |-> PyBool(FALSE)])
        ELSE PyDict([f \in {s_instance_type, s_replicas} |->
                        IF f = s_instance_type THEN PyStr(s_t3_small) ELSE PyInt(1)])]

\* overlays: a longer retention and another engine; a public database; more replicas
\* and a note
OverlayRetention ==
    [k \in {s_database} |->
        PyDict([f \in {s_engine, s_backup_retention} |->
                   IF f = s_engine THEN PyStr(s_mysql) ELSE PyInt(45)])]
OverlayPublic ==
    [k \in {s_database} |-> PyDict([f \in {s_publicly_accessible} |-> PyBool(TRUE)])]
OverlayNote ==
    [k \in {s_api_service, <<110, 111, 116, 101>>} |->
        IF k = s_api_service THEN PyDict([f \in {s_replicas} |-> PyInt(3)])
        ELSE PyStr(s_MISSING)]

BaseFiles == {NoFile, File(BaseFull), File(BasePartial)}
EnvFiles == {NoFile, File(OverlayRetention), File(OverlayPublic), File(OverlayNote)}

\* the text of an output file left by an earlier run: "stale = 1"
StaleText == <<115, 116, 97, 108, 101, 32, 61, 32, 49>>

NoRun ==
    [cmd |-> "none", arg1 |-> <<>>, arg2 |-> <<>>, status |-> "ok",
     log |-> <<>>, all_valid |-> TRUE, report |-> <<>>]

Init ==
    /\ base_file \in BaseFiles
    /\ env_files \in [EnvSet -> EnvFiles]
    /\ tf_dir \in {[e \in EnvSet |-> NoFile], [e \in EnvSet |-> File(StaleText)]}
    /\ last = NoRun
    /\ MergeIdle
    /\ ConfigIdle

\* a run that ends in get_config_for_env raising FileNotFoundError
Crashed(cmd, arg1, arg2) ==
    [cmd |-> cmd, arg1 |-> arg1, arg2 |-> arg2, status |-> "FileNotFoundError",
     log |-> <<>>, all_valid |-> TRUE, report |-> <<>>]

\* main(), command validate, with arg an environment or "all"
Validate(arg) ==
    /\ IF base_file = NoFile
       THEN last' = Crashed("validate", arg, <<>>)
       ELSE \E r \in {validate_envs(base_file, env_files,
                                    IF arg = s_all THEN ENVIRONMENTS ELSE <<arg>>, 1,
                                    [all_valid |-> TRUE, log |-> <<>>])} :
               last' = [cmd |-> "validate", arg1 |-> arg, arg2 |-> <<>>, status |-> "ok",
                        log |-> r.log, all_valid |-> r.all_valid, report |-> <<>>]
    /\ UNCHANGED <<base_file, env_files, tf_dir, mvars, cvars>>

\* mutant of Generate: the output file is opened for writing before the config is
\* validated, so a failed validation leaves it empty
GenerateOpenFirst(env) ==
    /\ IF base_file = NoFile
       THEN /\ last' = Crashed("generate", env, <<>>)
            /\ tf_dir' = tf_dir
       ELSE \E config \in {get_config_for_env(base_file, env_files[env], env)} :
            \E r \in {validate_config(env, config)} :
               /\ last' = [cmd |-> "generate", arg1 |-> env, arg2 |-> <<>>, status |-> "ok",
                           log |-> <<[env |-> env, valid |-> r.valid, errors |-> r.errors]>>,
                           all_valid |-> r.valid, report |-> <<>>]
               /\ tf_dir' = [tf_dir EXCEPT ![env] =
                                File(IF r.valid THEN generate_tfvars(env, config).text ELSE <<>>)]
    /\ UNCHANGED <<base_file, env_files, mvars, cvars>>

\* main(), command generate
Generate(env) ==
    /\ IF base_file = NoFile
       THEN /\ last' = Crashed("generate", env, <<>>)
            /\ tf_dir' = tf_dir
       ELSE \E config \in {get_config_for_env(base_file, env_files[env], env)} :
            \E r \in {validate_config(env, config)} :
               /\ last' = [cmd |-> "generate", arg1 |-> env, arg2 |-> <<>>, status |-> "ok",
                           log |-> <<[env |-> env, valid |-> r.valid, errors |-> r.errors]>>,
                           all_valid |-> r.valid, report |-> <<>>]
               /\ IF r.valid
                  THEN \E g \in {generate_tfvars(env, config)} :
                          tf_dir' = IF g.raised THEN tf_dir
                                    ELSE [tf_dir EXCEPT ![env] = File(g.text)]
                  ELSE tf_dir' = tf_dir
    /\ UNCHANGED <<base_file, env_files, mvars, cvars>>

\* main(), command diff
Diff(env1, env2) ==
    /\ IF base_file = NoFile
       THEN last' = Crashed("diff", env1, env2)
       ELSE \E report \in {run_diff(get_config_for_env(base_file, env_files[env1], env1),
                                    get_config_for_env(base_file, env_files[env2], env2))} :
               last' = [cmd |-> "diff", arg1 |-> env1, arg2 |-> env2, status |-> "ok",
                        log |-> <<>>, all_valid |-> TRUE, report |-> report]
    /\ UNCHANGED <<base_file, env_files, tf_dir, mvars, cvars>>

Next ==
    \/ \E arg \in EnvSet \cup {s_all} : Validate(arg)
    \/ \E env \in EnvSet : Generate(env)
    \/ \E env1 \in EnvSet, env2 \in EnvSet : Diff(env1, env2)

Spec == Init /\ [][Next]_vars

(***************************************************************************)
(* Merge harness: recursive_merge applied to documents drawn from a        *)
(* bounded set of trees.                                                   *)
(***************************************************************************)
MaxEntries == 2

MergeKeys == {<<97>>, <<98>>}                           \* "a", "b"
MergeLeaves == {PyInt(1), PyList(<<PyInt(1)>>)}

PartialFns(K, V) == UNION {[d -> V] : d \in SUBSET K}

MergeTrees ==
    PartialFns(MergeKeys,
               MergeLeaves \cup {PyDict(f) : f \in PartialFns(MergeKeys, MergeLeaves)})

RECURSIVE Entries(_)
RECURSIVE SumEntries(_, _)
SumEntries(doc, ks) ==
    IF ks = {} THEN 0
    ELSE LET k == CHOOSE x \in ks : TRUE
         IN  1 + (IF doc[k].t = "dict" THEN Entries(doc[k].v) ELSE 0)
               + SumEntries(doc, ks \ {k})
\* number of key entries of a document, at all levels
Entries(doc) == SumEntries(doc, DOMAIN doc)

MergeDocs == {d \in MergeTrees : Entries(d) <= MaxEntries}

InitMerge ==
    /\ mA \in MergeDocs
    /\ mB \in MergeDocs
    /\ mC \in MergeDocs
    /\ mPc = "ready"
    /\ mAB = NoResult
    /\ mAafter = NoResult
    /\ mLeft = NoResult
    /\ mRight = NoResult
    /\ mBE = NoResult
    /\ ConfigIdle
    /\ PipelineIdle

\* loads the three documents and the empty mapping, then applies recursive_merge
MergeApply ==
    /\ mPc = "ready"
    /\ \E la \in {safe_load(<<>>, mA)} :
       \E lb \in {safe_load(la.heap, mB)} :
       \E lc \in {safe_load(lb.heap, mC)} :
       \E le \in {safe_load(lc.heap, EmptyDoc)} :
       \E ab \in {recursive_merge(le.heap, la.ref, lb.ref)} :
       \E abc \in {recursive_merge(ab.heap, ab.ref, lc.ref)} :
       \E bc \in {recursive_merge(abc.heap, lb.ref, lc.ref)} :
       \E a_bc \in {recursive_merge(bc.heap, la.ref, bc.ref)} :
       \E be \in {recursive_merge(a_bc.heap, lb.ref, le.ref)} :
           /\ mAB' = Deref(ab.heap, ab.ref)
           /\ mAafter' = Deref(ab.heap, la.ref)
           /\ mLeft' = Deref(abc.heap, abc.ref)
           /\ mRight' = Deref(a_bc.heap, a_bc.ref)
           /\ mBE' = Deref(be.heap, be.ref)
    /\ mPc' = "done"
    /\ UNCHANGED <<mA, mB, mC, cvars, pvars>>

NextMerge == MergeApply

SpecMerge == InitMerge /\ [][NextMerge]_vars

(***************************************************************************)
(* Claims about recursive_merge (checked under SpecMerge).                 *)
(***************************************************************************)
RECURSIVE MergeContract(_, _, _)
\* the key-by-key characterisation of a merge result, on trees
MergeContract(base, overlay, result) ==
    /\ DOMAIN result = (DOMAIN base) \cup (DOMAIN overlay)
    /\ \A k \in DOMAIN result :
          IF k \notin DOMAIN overlay THEN result[k] = base[k]
          ELSE IF k \in DOMAIN base /\ base[k].t = "dict" /\ overlay[k].t = "dict"
               THEN /\ result[k].t = "dict"
                    /\ MergeContract(base[k].v, overlay[k].v, result[k].v)
               ELSE result[k] = overlay[k]

\* C1: the result's key set is the union of both key sets; a key only in base keeps
\* base's value, a key whose two values are both mappings holds their recursive merge,
\* and any other key of the overlay holds the overlay's value outright.
C1_MergeContract == mPc = "done" => MergeContract(mA, mB, mAB)

\* a key held as a non-empty mapping by both sides, whose merge has entries from both,
\* and the result differs from both arguments
C1_Witness ==
    /\ mPc = "done"
    /\ \E k \in (DOMAIN mA) \cap (DOMAIN mB) :
          /\ mA[k].t = "dict" /\ mB[k].t = "dict"
          /\ DOMAIN mA[k].v # {} /\ DOMAIN mB[k].v # {}
          /\ DOMAIN mA[k].v # DOMAIN mB[k].v
          /\ DOMAIN mAB[k].v = (DOMAIN mA[k].v) \cup (DOMAIN mB[k].v)

\* C6: after recursive_merge(base, overlay) returns, base and every nested mapping
\* reachable from it are as they were before the call.
C6_BaseUnchanged == mPc = "done" => mAafter = mA

\* a call that had to write inside a nested mapping of the result: both sides hold a
\* mapping under the same key and the merged nested mapping differs from base's
C6_Witness ==
    /\ mPc = "done"
    /\ \E k \in (DOMAIN mA) \cap (DOMAIN mB) :
          /\ mA[k].t = "dict" /\ mB[k].t = "dict"
          /\ mAB[k] # mA[k]

RECURSIVE Shadowed(_, _, _)
\* some key path holds a mapping in a and in c but a non-mapping value in b
Shadowed(a, b, c) ==
    \E k \in (DOMAIN a) \cap (DOMAIN b) \cap (DOMAIN c) :
        /\ a[k].t = "dict" /\ c[k].t = "dict"
        /\ \/ b[k].t # "dict"
           \/ Shadowed(a[k].v, b[k].v, c[k].v)

\* C7 as stated: merge(merge(A, B), C) = merge(A, merge(B, C)) for all A, B, C, and
\* merge(B, {}) = B.
C7_Associative == mPc = "done" => (mLeft = mRight /\ mBE = mB)

\* C7 amended: the two groupings agree whenever no key path holds a mapping in A and
\* in C but a non-mapping value in B; and merge(B, {}) = B.
C7_AssociativeUnshadowed ==
    mPc = "done" => /\ (~Shadowed(mA, mB, mC) => mLeft = mRight)
                    /\ mBE = mB

\* three documents that all hold a non-empty mapping under one key, with different
\* nested key sets, and no shadowing
C7_Witness ==
    /\ mPc = "done"
    /\ ~Shadowed(mA, mB, mC)
    /\ \E k \in (DOMAIN mA) \cap (DOMAIN mB) \cap (DOMAIN mC) :
          /\ mA[k].t = "dict" /\ mB[k].t = "dict" /\ mC[k].t = "dict"
          /\ DOMAIN mA[k].v # {} /\ DOMAIN mB[k].v # {} /\ DOMAIN mC[k].v # {}
          /\ DOMAIN mC[k].v # DOMAIN mA[k].v
          /\ mLeft[k] # mC[k]

(***************************************************************************)
(* Claims about validation and rendering (checked under SpecConfig).       *)
(***************************************************************************)
\* the section under name is a mapping whose fields all validate
SectionValid(config, name, decl) ==
    /\ name \in DOMAIN config
    /\ config[name].t = "dict"
    /\ \A i \in 1..Len(decl) : validate_field(config[name].v, decl[i][1], decl[i][2]).ok

StructurallyValid(config) ==
    /\ SectionValid(config, s_database, DatabaseFields)
    /\ SectionValid(config, s_api_service, ComputeFields)

\* the validated value of a field of a section
Validated(config, section, name, kind) == validate_field(config[section].v, name, kind).v

Retention(config) == Validated(config, s_database, s_backup_retention, "int").v
Public(config) == Validated(config, s_database, s_publicly_accessible, "bool").v

\* C3: for a structurally valid config, validation fails (with one safety-rule error at
\* the database field) exactly when the environment is prod and the database is
\* publicly accessible or keeps backups for fewer than 30 days.
C3_SafetyRules ==
    (cPc \in {"validated", "generated"} /\ StructurallyValid(cConfig)) =>
        IF cEnv = s_prod /\ (Public(cConfig) = TRUE \/ Retention(cConfig) < 30)
        THEN /\ cValid = FALSE
             /\ Len(cErrors) = 1
             /\ cErrors[1].loc = <<s_database>>
             /\ cErrors[1].type \in {"R1", "R2"}
        ELSE cValid = TRUE /\ cErrors = <<>>

\* prod, not public, 29 days of retention: rejected by the retention rule alone
C3_Witness ==
    /\ cPc = "validated"
    /\ StructurallyValid(cConfig)
    /\ cEnv = s_prod
    /\ Public(cConfig) = FALSE
    /\ Retention(cConfig) = 29
    /\ cValid = FALSE

\* the number of required-field, type and allowed-value constraints a section violates
SectionViolations(config, name, decl) ==
    IF name \notin DOMAIN config \/ config[name].t # "dict" THEN 1
    ELSE Cardinality({i \in 1..Len(decl) :
                         ~validate_field(config[name].v, decl[i][1], decl[i][2]).ok})

\* the number of safety rules a config with a structurally valid database violates
RuleViolations(env, config) ==
    IF env # s_prod \/ ~SectionValid(config, s_database, DatabaseFields) THEN 0
    ELSE (IF Public(config) = TRUE THEN 1 ELSE 0) + (IF Retention(config) < 30 THEN 1 ELSE 0)

\* C4 as stated: a failed validation reports one entry per violated field constraint
\* and one entry per violated safety rule.
C4_CompleteBatch ==
    (cPc = "validated" /\ cValid = FALSE) =>
        Len(cErrors) = SectionViolations(cConfig, s_database, DatabaseFields)
                       + SectionViolations(cConfig, s_api_service, ComputeFields)
                       + RuleViolations(cEnv, cConfig)

\* C10 as stated: an accepted config has engine postgres or mysql, a non-negative
\* integer backup_retention, a boolean publicly_accessible, an allowed instance_type
\* and an integer replicas.
C10_FieldConstraints ==
    (cPc = "validated" /\ cValid = TRUE) =>
        /\ StructurallyValid(cConfig)
        /\ Validated(cConfig, s_database, s_engine, "engine").v \in {s_postgres, s_mysql}
        /\ Validated(cConfig, s_database, s_backup_retention, "int").t = "int"
        /\ Retention(cConfig) >= 0
        /\ Validated(cConfig, s_database, s_publicly_accessible, "bool").t = "bool"
        /\ Validated(cConfig, s_api_service, s_instance_type, "instance_type").v
              \in {s_t3_small, s_t3_medium, s_t3_large, s_m5_large}
        /\ Validated(cConfig, s_api_service, s_replicas, "int").t = "int"

RECURSIVE SplitLines(_)
\* the lines of a text, split at the newline character
SplitLines(text) ==
    IF \A i \in 1..Len(text) : text[i] # 10 THEN <<text>>
    ELSE LET n == CHOOSE i \in 1..Len(text) :
                     text[i] = 10 /\ \A j \in 1..(i - 1) : text[j] # 10
         IN  <<SubSeq(text, 1, n - 1)>> \o SplitLines(SubSeq(text, n + 1, Len(text)))

\* line is prefix followed by rest
HasForm(line, prefix, rest) == line = prefix \o rest

\* s is the plain decimal form of n: an optional minus sign and digits without a
\* leading zero, denoting n
PlainDecimal(s, n) ==
    LET body == IF n < 0 THEN Tail(s) ELSE s
    IN  /\ Len(s) > 0
        /\ (n < 0) = (s[1] = 45)
        /\ Len(body) > 0
        /\ \A i \in 1..Len(body) : body[i] \in 48..57
        /\ (Len(body) > 1 => body[1] # 48)
        /\ DigitsValue(body) = (IF n < 0 THEN 0 - n ELSE n)

\* line is prefix followed by the plain decimal form of n
DecimalLine(line, prefix, n) ==
    /\ Len(line) > Len(prefix)
    /\ SubSeq(line, 1, Len(prefix)) = prefix
    /\ PlainDecimal(SubSeq(line, Len(prefix) + 1, Len(line)), n)

\* C9: the rendered text is five newline-joined lines: the database fields, then the
\* api_service fields, in declaration order; strings are double-quoted, booleans are
\* true/false, integers are plain decimals; no line is about environment.
C9_RenderedText ==
    cPc = "generated" =>
        LET lines == SplitLines(cFile)
            quote == <<34>>
        IN  /\ Len(lines) = 5
            /\ HasForm(lines[1],
                  <<100, 97, 116, 97, 98, 97, 115, 101, 95, 101, 110, 103, 105, 110, 101, 32, 61, 32>>,
                  quote \o Validated(cConfig, s_database, s_engine, "engine").v \o quote)
            /\ DecimalLine(lines[2],
                  <<100, 97, 116, 97, 98, 97, 115, 101, 95, 98, 97, 99, 107, 117, 112, 95, 114,
                    101, 116, 101, 110, 116, 105, 111, 110, 32, 61, 32>>,
                  Retention(cConfig))
            /\ HasForm(lines[3],
                  <<100, 97, 116, 97, 98, 97, 115, 101, 95, 112, 117, 98, 108, 105, 99, 108, 121,
                    95, 97, 99, 99, 101, 115, 115, 105, 98, 108, 101, 32, 61, 32>>,
                  IF Public(cConfig) THEN <<116, 114, 117, 101>> ELSE <<102, 97, 108, 115, 101>>)
            /\ HasForm(lines[4],
                  <<97, 112, 105, 95, 115, 101, 114, 118, 105, 99, 101, 95, 105, 110, 115, 116,
                    97, 110, 99, 101, 95, 116, 121, 112, 101, 32, 61, 32>>,
                  quote \o Validated(cConfig, s_api_service, s_instance_type, "instance_type").v
                        \o quote)
            /\ DecimalLine(lines[5],
                  <<97, 112, 105, 95, 115, 101, 114, 118, 105, 99, 101, 95, 114, 101, 112, 108,
                    105, 99, 97, 115, 32, 61, 32>>,
                  Validated(cConfig, s_api_service, s_replicas, "int").v)

\* a rendered config with a true boolean, a negative and a two-digit integer
C9_Witness ==
    /\ cPc = "generated"
    /\ cFile # NoFile
    /\ Public(cConfig) = TRUE
    /\ Retention(cConfig) < 0
    /\ cEnv = s_dev

(***************************************************************************)
(* Claims about the commands (checked under Spec).                         *)
(***************************************************************************)
\* the merged config of env, from the files on disk
Resolved(env) == get_config_for_env(base_file, env_files[env], env)

\* whether the merged config of env validates
EnvValid(env) == EnvironmentConfig(Resolved(env)).ok

\* C2: the output file of an environment changes only in a generate run for that
\* environment whose merged config validates; a generate run whose validation fails
\* leaves every output file as it was.
C2_GenerateGated ==
    [][/\ \A e \in EnvSet :
             tf_dir'[e] # tf_dir[e] =>
                 /\ last'.cmd = "generate"
                 /\ last'.arg1 = e
                 /\ base_file # NoFile
                 /\ EnvValid(e)
       /\ (last'.cmd = "generate" /\ ~last'.all_valid) => tf_dir' = tf_dir]_vars

\* a generate run whose validation failed, with the earlier output file still there
C2_Witness ==
    /\ last.cmd = "generate"
    /\ last.status = "ok"
    /\ ~last.log[1].valid
    /\ tf_dir[last.arg1] = File(StaleText)

\* C5: when the base document loads, validate all validates dev, staging and prod in
\* that order whatever the earlier outcomes, and succeeds exactly when all three pass.
C5_ValidateAll ==
    (last.cmd = "validate" /\ last.arg1 = s_all /\ base_file # NoFile) =>
        /\ last.status = "ok"
        /\ Len(last.log) = 3
        /\ last.log[1].env = s_dev /\ last.log[1].valid = EnvValid(s_dev)
        /\ last.log[2].env = s_staging /\ last.log[2].valid = EnvValid(s_staging)
        /\ last.log[3].env = s_prod /\ last.log[3].valid = EnvValid(s_prod)
        /\ last.all_valid = (EnvValid(s_dev) /\ EnvValid(s_staging) /\ EnvValid(s_prod))

\* a validate all run in which dev failed and prod, validated after it, passed
C5_Witness ==
    /\ last.cmd = "validate"
    /\ last.arg1 = s_all
    /\ last.status = "ok"
    /\ Len(last.log) = 3
    /\ ~last.log[1].valid
    /\ last.log[3].valid
    /\ ~last.all_valid

\* the flattened projection of the merged config of env
Flat(env) == flatten_dict(Resolved(env), <<>>, <<95>>)

\* the two sides differ at key k: it is absent from one side, or the values differ
Disagree(flat1, flat2, k) ==
    \/ k \notin DOMAIN flat1
    \/ k \notin DOMAIN flat2
    \/ flat1[k] # flat2[k]

\* the report lists, in ascending key order and once each, the keys other than
\* environment at which the sides differ, each with the value or the sentinel per side
DiffContract(flat1, flat2, report) ==
    /\ \A i \in 1..(Len(report) - 1) : str_less(report[i].key, report[i + 1].key)
    /\ {report[i].key : i \in 1..Len(report)} =
           {k \in ((DOMAIN flat1) \cup (DOMAIN flat2)) \ {s_environment} :
               Disagree(flat1, flat2, k)}
    /\ \A i \in 1..Len(report) :
          /\ report[i].val1 = IF report[i].key \in DOMAIN flat1 THEN flat1[report[i].key]
                              ELSE PyStr(s_MISSING)
          /\ report[i].val2 = IF report[i].key \in DOMAIN flat2 THEN flat2[report[i].key]
                              ELSE PyStr(s_MISSING)

\* C8 as stated: run_diff reports, in lexicographic key order, exactly the keys of the
\* union other than environment at which the sides disagree; a key present on one side
\* only is always reported, whatever its value.
C8_DiffReport ==
    (last.cmd = "diff" /\ last.status = "ok") =>
        DiffContract(Flat(last.arg1), Flat(last.arg2), last.report)

====
